---- MODULE Spec2Model ----
(***************************************************************************)
(* The DataImage reconciliation controller of the baremetal-operator       *)
(* (controllers/metal3.io/dataimage_controller.go), for one resource       *)
(* identity: one DataImage and the BareMetalHost of the same               *)
(* namespace/name.  The API server's objects, the provisioner's answers    *)
(* and the controller's work queue are the state; one Reconcile pass is    *)
(* one action.                                                             *)
(***************************************************************************)
EXTENDS Integers, Sequences, FiniteSets, TLC

VARIABLES
    di,          \* the persisted DataImage (NoDataImage when it does not exist)
    bmh,         \* the persisted BareMetalHost of the same identity
    tryInit,     \* what prov.TryInit() answers: "ready", "notready" or "error"
    backend,     \* what prov.GetDataImageStatus() reports
    queued,      \* the work queue holds the key of this DataImage
    faultsLeft,  \* how many more failures (store, provisioner, crash) may be injected
    last         \* what the most recent pass observed and returned

vars == <<di, bmh, tryInit, backend, queued, faultsLeft, last>>

----------------------------------------------------------------------------
(* Bounds of the model. *)

MaxGen == 2
MaxFaults == 1
MaxEvents == 2

----------------------------------------------------------------------------
(* Program constants. *)

\* time.Second * 60, in seconds
dataImageRetryDelay == 60
\* declared in baremetalhost_controller.go, in seconds
unmanagedRetryDelay == 600
provisionerRetryDelay == 30

\* metal3api.DataImageFinalizer
DataImageFinalizer == "dataimage.metal3.io"
\* a finalizer that another controller owns
OtherFinalizer == "other.example/finalizer"

----------------------------------------------------------------------------
(* Values. *)

URLs == {"", "http://image"}
Messages == {"", "attach failed"}

\* DataImageStatus: the attached image's URL and the reported error
StatusValues == [AttachedImageURL : URLs, ErrorMessage : Messages]
EmptyStatus == [AttachedImageURL |-> "", ErrorMessage |-> ""]

NoDataImage ==
    [exists |-> FALSE, Finalizers |-> <<>>, deleting |-> FALSE,
     Generation |-> 0, Status |-> EmptyStatus]

NoHost == [exists |-> FALSE, detached |-> FALSE, Generation |-> 0]

\* The events the provisioner may hand to info.publishEvent during a pass.
EventNames == <<"Ev1", "Ev2", "Ev3">>
EventBuffers == {SubSeq(EventNames, 1, n) : n \in 0..MaxEvents}

\* What may go wrong in a pass.
Faults ==
    {"none", "getDataImage", "getHost", "newProvisioner", "getStatus",
     "update", "conflict", "crashBeforeWrite", "crashAfterWrite"}
CrashFaults == {"crashBeforeWrite", "crashAfterWrite"}
\* The faults that make a write of the DataImage fail: the store is
\* unavailable, or the stored object is newer than the loaded one.
PersistFaults == {"update", "conflict"}

----------------------------------------------------------------------------
(* Helpers of pkg/utils and of the host controller. *)

RECURSIVE FilterStringFromList(_, _)
FilterStringFromList(list, s) ==
    IF list = <<>> THEN <<>>
    ELSE IF Head(list) = s THEN FilterStringFromList(Tail(list), s)
    ELSE <<Head(list)>> \o FilterStringFromList(Tail(list), s)

StringInList(list, s) == \E i \in 1..Len(list) : list[i] = s

hasDetachedAnnotation(h) == h.detached

DeletionTimestampIsZero(d) == ~d.deleting

----------------------------------------------------------------------------
(* The API server, as the controller's client sees it.  The DataImage has a *)
(* status subresource (r.Status().Update, and the dataimages/status RBAC    *)
(* rule): an update of the resource writes metadata and spec and leaves the *)
(* stored status alone, an update of the subresource writes the status      *)
(* only.  An object under deletion is removed with its last finalizer.      *)

\* r.Update(ctx, di)
Update(stored, obj) ==
    IF stored.deleting /\ obj.Finalizers = <<>>
    THEN NoDataImage
    ELSE [stored EXCEPT !.Finalizers = obj.Finalizers]

\* Another actor's write between a pass's load and its persist: the other
\* controller puts its finalizer on a live DataImage or takes it off.
Interfere(d) ==
    IF StringInList(d.Finalizers, OtherFinalizer)
    THEN Update(d, [d EXCEPT !.Finalizers =
                        FilterStringFromList(@, OtherFinalizer)])
    ELSE IF d.deleting THEN d
    ELSE [d EXCEPT !.Finalizers = Append(@, OtherFinalizer)]

\* The stored DataImage when a persist of the pass that loaded d is refused:
\* the store checks the resource version of the object it is handed and
\* writes nothing of it when the stored one is newer.
Refused(d, f) == IF f = "conflict" THEN Interfere(d) ELSE d

\* A status update that writes nothing.
StatusUpdate_Lost(stored, obj) == stored

\* r.Status().Update(info.ctx, dataImage)
StatusUpdate(stored, obj) == [stored EXCEPT !.Status = obj.Status]

\* The error of the subresource update is swallowed.
updateStatus_ErrorSwallowed(stored, obj, f) ==
    IF f \in PersistFaults
    THEN [store |-> Refused(stored, f), err |-> ""]
    ELSE [store |-> StatusUpdate(stored, obj), err |-> ""]

\* updateStatus: nil when the subresource update succeeded
updateStatus(stored, obj, f) ==
    IF f \in PersistFaults
    THEN [store |-> Refused(stored, f),
          err |-> "Failed to update DataImage status"]
    ELSE [store |-> StatusUpdate(stored, obj), err |-> ""]

\* The flush stops at the first event whose Create fails.
RECURSIVE publishEvents_StopAtFailure(_, _, _)
publishEvents_StopAtFailure(events, i, sinkDown) ==
    IF i > Len(events) \/ i \in sinkDown THEN <<>>
    ELSE <<events[i]>> \o publishEvents_StopAtFailure(events, i + 1, sinkDown)

\* r.publishEvent for every buffered event, in order; a failed Create is
\* logged and ignored.  sinkDown is the set of positions whose Create fails.
RECURSIVE publishEvents(_, _, _)
publishEvents(events, i, sinkDown) ==
    IF i > Len(events) THEN <<>>
    ELSE (IF i \in sinkDown THEN <<>> ELSE <<events[i]>>)
         \o publishEvents(events, i + 1, sinkDown)

----------------------------------------------------------------------------
(* The steps of Reconcile. *)

\* ctrl.Result
Result(requeue, after) == [Requeue |-> requeue, RequeueAfter |-> after]

\* The finalizer step is skipped.
NeedsFinalizer_Never(d) == FALSE

\* The deletion timestamp is not looked at.
NeedsFinalizer_AlsoDeleting(d) == ~StringInList(d.Finalizers, DataImageFinalizer)

\* line 156: the finalizer is to be added
NeedsFinalizer(d) ==
    DeletionTimestampIsZero(d) /\ ~StringInList(d.Finalizers, DataImageFinalizer)

\* The finalizer list is assigned instead of appended to.
AddFinalizer_Assign(d) == [d EXCEPT !.Finalizers = <<DataImageFinalizer>>]

\* line 158
AddFinalizer(d) ==
    [d EXCEPT !.Finalizers = Append(d.Finalizers, DataImageFinalizer)]

\* The fetched status is dropped: the loaded status stays.
DeepCopyInto_Skip(status, d) == d

\* The fetched status is merged: empty fields keep the loaded value.
DeepCopyInto_Merge(status, d) ==
    [d EXCEPT !.Status =
        [AttachedImageURL |-> IF status.AttachedImageURL = ""
                              THEN @.AttachedImageURL ELSE status.AttachedImageURL,
         ErrorMessage |-> IF status.ErrorMessage = ""
                          THEN @.ErrorMessage ELSE status.ErrorMessage]]

\* line 174: dataImageStatus.DeepCopyInto(&di.Status)
DeepCopyInto(status, d) == [d EXCEPT !.Status = status]

\* The comparison of the URL is inverted.
StillAttached_Inverted(d) == d.Status.AttachedImageURL = ""

\* lines 181-183: the image is still attached
StillAttached(d) == d.Status.AttachedImageURL # ""

\* The filtered list is thrown away.
RemoveFinalizer_Kept(d) == d

\* lines 188-189
RemoveFinalizer(d) ==
    [d EXCEPT !.Finalizers = FilterStringFromList(d.Finalizers, DataImageFinalizer)]

\* What a pass leaves behind and returns.
\*   store      the persisted DataImage after the pass
\*   mem        the pass's in-memory DataImage when it returns
\*   result/err the returned ctrl.Result and error ("" is nil)
\*   path       the return statement taken
\*   fetched    prov.GetDataImageStatus() was called and answered
\*   published  the events recorded by the flush
Outcome(store, mem, result, err, path, fetched, published) ==
    [store |-> store, mem |-> mem, result |-> result, err |-> err,
     path |-> path, fetched |-> fetched, published |-> published]

\* The events are flushed before the status is written.
UpdateAndPublish_PublishFirst(d, m, f, evs, sinkDown) ==
    LET u == updateStatus(d, m, f) IN
    IF u.err # ""
    THEN Outcome(u.store, m, Result(TRUE, dataImageRetryDelay),
                 "failed to update resource statu",
                 "updateStatusFailed", TRUE, publishEvents(evs, 1, sinkDown))
    ELSE Outcome(u.store, m, Result(FALSE, 0), "",
                 "statusUpdated", TRUE, publishEvents(evs, 1, sinkDown))

\* Lines 197-206: the live path.  m is the in-memory DataImage with the
\* fetched status.
UpdateAndPublish(d, m, f, evs, sinkDown) ==
    LET u == updateStatus(d, m, f) IN
    IF u.err # ""
    THEN Outcome(u.store, m, Result(TRUE, dataImageRetryDelay),
                 "failed to update resource statu",
                 "updateStatusFailed", TRUE, <<>>)
    ELSE Outcome(u.store, m, Result(FALSE, 0), "",
                 "statusUpdated", TRUE, publishEvents(evs, 1, sinkDown))

\* Lines 167-206: the status is fetched, then the DataImage under deletion
\* loses the finalizer once detached, the live one gets its status written.
\* d is the stored DataImage as loaded, bs the backend's status, evs the
\* events buffered by the provisioner.
FetchAndApply(d, bs, f, evs, sinkDown) ==
    IF f = "getStatus"
    THEN Outcome(d, d, Result(TRUE, dataImageRetryDelay),
                 "failed to get latest status", "getStatusFailed", FALSE, <<>>)
    ELSE LET m == DeepCopyInto(bs, d) IN
         IF ~DeletionTimestampIsZero(m)
         THEN IF StillAttached(m)
              THEN Outcome(d, m, Result(TRUE, dataImageRetryDelay), "",
                           "waitDetach", TRUE, <<>>)
              ELSE LET m2 == RemoveFinalizer(m) IN
                   IF f \in PersistFaults
                   THEN Outcome(Refused(d, f), m2,
                                Result(TRUE, dataImageRetryDelay),
                                "failed to update resource after remove finalizer",
                                "removeFinalizerFailed", TRUE, <<>>)
                   ELSE Outcome(Update(d, m2), m2, Result(FALSE, 0), "",
                                "finalizerRemoved", TRUE, <<>>)
         ELSE UpdateAndPublish(d, m, f, evs, sinkDown)

\* The pass goes on after it has added the finalizer.
ReconcileReady_NoReturnAfterAdd(d, bs, f, evs, sinkDown) ==
    IF NeedsFinalizer(d)
    THEN LET m == AddFinalizer(d) IN
         IF f \in PersistFaults
         THEN Outcome(Refused(d, f), m, Result(FALSE, 0),
                      "failed to update resource after add finalizer",
                      "addFinalizerFailed", FALSE, <<>>)
         ELSE FetchAndApply(Update(d, m), bs, f, evs, sinkDown)
    ELSE FetchAndApply(d, bs, f, evs, sinkDown)

\* Lines 155-206, with the provisioner ready.  d is the loaded DataImage,
\* bs the backend's status, evs the events buffered by the provisioner.
ReconcileReady(d, bs, f, evs, sinkDown) ==
    IF NeedsFinalizer(d)
    THEN LET m == AddFinalizer(d) IN
         IF f \in PersistFaults
         THEN Outcome(Refused(d, f), m, Result(FALSE, 0),
                      "failed to update resource after add finalizer",
                      "addFinalizerFailed", FALSE, <<>>)
         ELSE Outcome(Update(d, m), m, Result(TRUE, 0), "",
                      "finalizerAdded", FALSE, <<>>)
    ELSE FetchAndApply(d, bs, f, evs, sinkDown)

\* A DataImage under deletion whose object is not found loses the finalizer.
NotFoundReturn_ClearsFinalizer(d, mem, path) ==
    IF d.exists /\ ~DeletionTimestampIsZero(d)
    THEN Outcome(Update(d, RemoveFinalizer(d)), RemoveFinalizer(d),
                 Result(FALSE, 0), "", path, FALSE, <<>>)
    ELSE Outcome(d, mem, Result(FALSE, 0), "", path, FALSE, <<>>)

\* lines 107-110 and 118-121: the object is not found
NotFoundReturn(d, mem, path) ==
    Outcome(d, mem, Result(FALSE, 0), "", path, FALSE, <<>>)

\* A failed load is taken for "not found".
LoadErrorReturn_AsNotFound(d, mem, msg, path) == NotFoundReturn(d, mem, path)

\* lines 112 and 124: the load failed for another reason
LoadErrorReturn(d, mem, msg, path) ==
    Outcome(d, mem, Result(TRUE, dataImageRetryDelay), msg, path, FALSE, <<>>)

\* The detached annotation is not looked at.
HostDetached_Ignored(h) == FALSE

\* line 129
HostDetached(h) == hasDetachedAnnotation(h)

\* Only an error of TryInit stops the pass.
ProvisionerNotReady_ErrorOnly(ti) == ti = "error"

\* line 144: err != nil || !ready
ProvisionerNotReady(ti) == ti = "error" \/ ti = "notready"

\* Lines 100-153, then the rest.  d and h are the persisted objects, ti the
\* answer of TryInit.
ReconcileOutcome(d, h, ti, bs, f, evs, sinkDown) ==
    IF f = "getDataImage"
    THEN LoadErrorReturn(d, NoDataImage, "could not load dataImage",
                         "getDataImageFailed")
    ELSE IF ~d.exists
    THEN NotFoundReturn(d, NoDataImage, "dataImageNotFound")
    ELSE IF f = "getHost"
    THEN LoadErrorReturn(d, d, "could not load baremetalhost", "getHostFailed")
    ELSE IF ~h.exists
    THEN NotFoundReturn(d, d, "hostNotFound")
    ELSE IF HostDetached(h)
    THEN Outcome(d, d, Result(TRUE, unmanagedRetryDelay), "",
                 "hostDetached", FALSE, <<>>)
    ELSE IF f = "newProvisioner"
    THEN Outcome(d, d, Result(FALSE, 0), "failed to create provisioner",
                 "newProvisionerFailed", FALSE, <<>>)
    ELSE IF ProvisionerNotReady(ti)
    THEN Outcome(d, d, Result(TRUE, provisionerRetryDelay), "",
                 "provisionerNotReady", FALSE, <<>>)
    ELSE ReconcileReady(d, bs, f, evs, sinkDown)

\* The return statements that follow a write, accepted or refused.
WritingPaths ==
    {"addFinalizerFailed", "finalizerAdded", "removeFinalizerFailed",
     "finalizerRemoved", "updateStatusFailed", "statusUpdated"}

----------------------------------------------------------------------------
(* Triggers: SetupWithManager and the update predicate. *)

\* The predicate passes every update.
updateEventHandler_Always(old, new) == TRUE

\* lines 233-243
updateEventHandler(old, new) == new.Generation # old.Generation

\* predicate.Funcs{UpdateFunc: r.updateEventHandler}: the functions left
\* unset (create, delete, generic) pass every event.
EventFilter(kind, old, new) ==
    IF kind = "update" THEN updateEventHandler(old, new) ELSE TRUE

\* For(&metal3api.DataImage{}) is the only watch that SetupWithManager sets up.
WatchedKinds == {"DataImage"}

\* An event of kind evKind on an object of kind objKind enqueues the key.
Enqueues(objKind, evKind, old, new) ==
    objKind \in WatchedKinds /\ EventFilter(evKind, old, new)

\* The event that a change of the stored DataImage raises.
EventKind(old, new) ==
    IF ~old.exists THEN "create" ELSE IF ~new.exists THEN "delete" ELSE "update"

\* A change of the stored DataImage from old to new enqueues the key.
Notifies(old, new) ==
    old # new /\ Enqueues("DataImage", EventKind(old, new), old, new)

\* The dispatcher re-enqueues the key after an error, after a delay or at once.
ShouldRequeue(result, err) ==
    err # "" \/ result.RequeueAfter > 0 \/ result.Requeue

----------------------------------------------------------------------------
(* State. *)

\* No pass has just ended.
Idle ==
    [path |-> "idle", fault |-> "none", result |-> Result(FALSE, 0), err |-> "",
     fetched |-> FALSE, hadFinalizer |-> FALSE, memStatus |-> EmptyStatus,
     buffered |-> <<>>, sinkDown |-> {}, published |-> <<>>, trigger |-> "none"]

\* No pass has just ended; the DataImage has just changed from old to new.
Changed(old, new) == [Idle EXCEPT !.trigger = EventKind(old, new)]

Init ==
    /\ di = NoDataImage
    /\ bmh = NoHost
    /\ tryInit = "notready"
    /\ backend = EmptyStatus
    /\ queued = FALSE
    /\ faultsLeft = MaxFaults
    /\ last = Idle

----------------------------------------------------------------------------
(* The environment: users, other controllers, the host, the backend. *)

\* A user creates the DataImage.
CreateDataImage ==
    /\ ~di.exists
    /\ di' = [exists |-> TRUE, Finalizers |-> <<>>, deleting |-> FALSE,
              Generation |-> 1, Status |-> EmptyStatus]
    /\ queued' = (queued \/ Notifies(di, di'))
    /\ last' = Changed(di, di')
    /\ UNCHANGED <<bmh, tryInit, backend, faultsLeft>>

\* A user changes the spec: the generation grows.
UpdateDataImageSpec ==
    /\ di.exists
    /\ di.Generation < MaxGen
    /\ di' = [di EXCEPT !.Generation = @ + 1]
    /\ queued' = (queued \/ Notifies(di, di'))
    /\ last' = Changed(di, di')
    /\ UNCHANGED <<bmh, tryInit, backend, faultsLeft>>

\* Another controller adds its finalizer: metadata only, same generation.
AddOtherFinalizer ==
    /\ di.exists
    /\ ~di.deleting
    /\ ~StringInList(di.Finalizers, OtherFinalizer)
    /\ di' = [di EXCEPT !.Finalizers = Append(@, OtherFinalizer)]
    /\ queued' = (queued \/ Notifies(di, di'))
    /\ last' = Changed(di, di')
    /\ UNCHANGED <<bmh, tryInit, backend, faultsLeft>>

\* The other controller removes its finalizer again.
RemoveOtherFinalizer ==
    /\ di.exists
    /\ StringInList(di.Finalizers, OtherFinalizer)
    /\ di' = Update(di, [di EXCEPT !.Finalizers =
                            FilterStringFromList(@, OtherFinalizer)])
    /\ queued' = (queued \/ Notifies(di, di'))
    /\ last' = Changed(di, di')
    /\ UNCHANGED <<bmh, tryInit, backend, faultsLeft>>

\* A user deletes the DataImage: with finalizers it is marked (the
\* generation grows), without it is removed.
DeleteDataImage ==
    /\ di.exists
    /\ ~di.deleting
    /\ di' = IF di.Finalizers = <<>>
             THEN NoDataImage
             ELSE [di EXCEPT !.deleting = TRUE, !.Generation = @ + 1]
    /\ queued' = (queued \/ Notifies(di, di'))
    /\ last' = Changed(di, di')
    /\ UNCHANGED <<bmh, tryInit, backend, faultsLeft>>

CreateHost ==
    /\ ~bmh.exists
    /\ bmh' = [exists |-> TRUE, detached |-> FALSE, Generation |-> 1]
    /\ queued' = (queued \/ Enqueues("BareMetalHost", "create", bmh, bmh'))
    /\ last' = Idle
    /\ UNCHANGED <<di, tryInit, backend, faultsLeft>>

\* The host's spec changes: the generation grows.
UpdateHostSpec ==
    /\ bmh.exists
    /\ bmh.Generation < MaxGen
    /\ bmh' = [bmh EXCEPT !.Generation = @ + 1]
    /\ queued' = (queued \/ Enqueues("BareMetalHost", "update", bmh, bmh'))
    /\ last' = Idle
    /\ UNCHANGED <<di, tryInit, backend, faultsLeft>>

\* The detached annotation is set or removed: metadata only.
SetDetached ==
    /\ bmh.exists
    /\ bmh' = [bmh EXCEPT !.detached = ~@]
    /\ queued' = (queued \/ Enqueues("BareMetalHost", "update", bmh, bmh'))
    /\ last' = Idle
    /\ UNCHANGED <<di, tryInit, backend, faultsLeft>>

DeleteHost ==
    /\ bmh.exists
    /\ bmh' = NoHost
    /\ queued' = (queued \/ Enqueues("BareMetalHost", "delete", bmh, bmh'))
    /\ last' = Idle
    /\ UNCHANGED <<di, tryInit, backend, faultsLeft>>

\* The provisioner becomes ready, not ready, or fails to answer.
SetTryInit ==
    /\ \E v \in {"ready", "notready", "error"} : v # tryInit /\ tryInit' = v
    /\ last' = Idle
    /\ UNCHANGED <<di, bmh, backend, queued, faultsLeft>>

\* The backend attaches or detaches the image, or reports another error.
SetBackendStatus ==
    /\ \E s \in StatusValues : s # backend /\ backend' = s
    /\ last' = Idle
    /\ UNCHANGED <<di, bmh, tryInit, queued, faultsLeft>>

----------------------------------------------------------------------------
(* One pass of Reconcile for the queued key.  A pass that crashes returns   *)
(* nothing; the restarted controller lists the existing objects again.     *)
(* sinkDown holds the positions of the buffer whose event Create fails;    *)
(* the event sink is consulted by the flush of lines 202-204 only.         *)

Reconcile ==
    /\ queued
    /\ \E f \in Faults, evs \in EventBuffers :
       \E sinkDown \in SUBSET (1..Len(evs)) :
          /\ f # "none" => faultsLeft > 0 /\ Len(evs) = MaxEvents /\ sinkDown = {}
          /\ faultsLeft' = IF f = "none" THEN faultsLeft ELSE faultsLeft - 1
          /\ LET o == ReconcileOutcome(di, bmh, tryInit, backend,
                                       IF f \in CrashFaults THEN "none" ELSE f,
                                       evs, sinkDown)
                 store == IF f = "crashBeforeWrite" THEN di ELSE o.store
             IN /\ sinkDown # {} => o.path = "statusUpdated"
                /\ f = "conflict" => o.path \in WritingPaths /\ Interfere(di) # di
                /\ di' = store
                /\ queued' = IF f \in CrashFaults
                             THEN store.exists
                             ELSE ShouldRequeue(o.result, o.err) \/ Notifies(di, store)
                /\ last' = [path |-> o.path, fault |-> f,
                            result |-> o.result, err |-> o.err,
                            fetched |-> o.fetched,
                            hadFinalizer |->
                                StringInList(di.Finalizers, DataImageFinalizer),
                            memStatus |-> o.mem.Status,
                            buffered |-> evs,
                            sinkDown |-> sinkDown,
                            published |-> IF f \in CrashFaults
                                          THEN <<>> ELSE o.published,
                            trigger |-> IF store = di THEN "none"
                                        ELSE EventKind(di, store)]
    /\ UNCHANGED <<bmh, tryInit, backend>>

Next ==
    \/ CreateDataImage
    \/ UpdateDataImageSpec
    \/ AddOtherFinalizer
    \/ RemoveOtherFinalizer
    \/ DeleteDataImage
    \/ CreateHost
    \/ UpdateHostSpec
    \/ SetDetached
    \/ DeleteHost
    \/ SetTryInit
    \/ SetBackendStatus
    \/ Reconcile

Spec == Init /\ [][Next]_vars

\* The work queue hands every queued key to a worker.
FairSpec == Spec /\ WF_vars(Reconcile)

----------------------------------------------------------------------------
(* Vocabulary of the properties.  A step is a pass when it leaves a record  *)
(* in last; the unprimed variables are the state the pass loaded.          *)

HasFinalizer(d) == StringInList(d.Finalizers, DataImageFinalizer)

HostManaged == bmh.exists /\ ~hasDetachedAnnotation(bmh)

PassStep == last'.path # "idle"

PassReturned == PassStep /\ last'.fault \notin CrashFaults

LoadFaults == {"getDataImage", "getHost", "newProvisioner"}

\* The pass gets past the readiness check: Host present, not detached,
\* gateway ready.
ReachesFinalizerStep ==
    /\ PassStep
    /\ di.exists
    /\ HostManaged
    /\ tryInit = "ready"
    /\ last'.fault \notin LoadFaults

\* The pass gets an answer from GetDataImageStatus.
BackendReports ==
    /\ ReachesFinalizerStep
    /\ di.deleting \/ HasFinalizer(di)
    /\ last'.fault # "getStatus"

\* No load, fetch or persist of the pass fails, and the pass does not crash.
NothingFails == last'.fault = "none"

\* Number of occurrences of s in list.
Occurrences(list, s) == Cardinality({i \in 1..Len(list) : list[i] = s})

\* The finalizers of d without the controller's marker.
WithoutMarker(d) == SelectSeq(d.Finalizers, LAMBDA x : x # DataImageFinalizer)

----------------------------------------------------------------------------
(* C1: a pass over a DataImage marked for deletion to which the backend     *)
(* reports a non-empty attached-image URL writes nothing (the finalizer     *)
(* set, like the rest of the persisted DataImage, is as it was loaded) and *)
(* returns Requeue after dataImageRetryDelay with no error.                *)
C1_NoRemovalWhileAttached ==
    [][(BackendReports /\ di.deleting /\ backend.AttachedImageURL # "")
        => /\ di' = di
           /\ PassReturned
                => /\ last'.result = Result(TRUE, dataImageRetryDelay)
                   /\ last'.err = ""
                   /\ queued']_vars

C1_Witness ==
    /\ last.path = "waitDetach"
    /\ last.fault = "none"
    /\ last.hadFinalizer
    /\ di.deleting
    /\ HasFinalizer(di)
    /\ backend.AttachedImageURL # ""
    /\ last.result = Result(TRUE, dataImageRetryDelay)

(* C2 as stated: whenever a pass clears the finalizer, the persisted        *)
(* Status.AttachedImage.URL of the DataImage is already empty.             *)
C2_PersistedURLEmptyAtRemoval ==
    [][(PassStep /\ HasFinalizer(di) /\ ~HasFinalizer(di'))
        => di.Status.AttachedImageURL = ""]_vars

(* C2, amended: whenever a pass clears the finalizer, the DataImage is      *)
(* marked for deletion and the URL that the backend reported to that pass, *)
(* held in the pass's in-memory status, is empty; the removal does not      *)
(* write the status, so the persisted status is the one loaded.            *)
C2_ReportedURLEmptyAtRemoval ==
    [][(PassStep /\ HasFinalizer(di) /\ ~HasFinalizer(di'))
        => /\ di.deleting
           /\ last'.fetched
           /\ backend.AttachedImageURL = ""
           /\ last'.memStatus.AttachedImageURL = ""
           /\ di'.exists => di'.Status = di.Status]_vars

C2_Witness ==
    /\ last.path = "finalizerRemoved"
    /\ last.hadFinalizer
    /\ last.memStatus.AttachedImageURL = ""
    /\ di.exists
    /\ ~HasFinalizer(di)
    /\ di.Status.AttachedImageURL # ""

(* C3: a pass that reaches the finalizer step for a DataImage that is not   *)
(* marked for deletion and lacks the marker, and whose update is accepted, *)
(* appends exactly the one marker and changes nothing else of the          *)
(* persisted DataImage, returns Requeue with no delay and no error, and    *)
(* does not fetch the backend status.                                      *)
C3_FinalizerAdded ==
    [][(ReachesFinalizerStep /\ ~di.deleting /\ ~HasFinalizer(di)
        /\ last'.fault \notin PersistFaults \cup CrashFaults)
        => /\ di' = [di EXCEPT !.Finalizers = Append(@, DataImageFinalizer)]
           /\ Occurrences(di'.Finalizers, DataImageFinalizer) = 1
           /\ last'.result = Result(TRUE, 0)
           /\ last'.err = ""
           /\ ~last'.fetched
           /\ last'.published = <<>>
           /\ queued']_vars

C3_Witness ==
    /\ last.path = "finalizerAdded"
    /\ last.fault = "none"
    /\ ~last.hadFinalizer
    /\ di.Finalizers = <<OtherFinalizer, DataImageFinalizer>>
    /\ ~di.deleting
    /\ last.result = Result(TRUE, 0)
    /\ queued

(* C4: a pass over a DataImage marked for deletion to which the backend     *)
(* reports an empty URL, and whose update is accepted, removes the marker  *)
(* in that pass (the other finalizers stay; without any the object is      *)
(* gone) and returns no requeue and no error.                              *)
C4_FinalizerRemoved ==
    [][(BackendReports /\ di.deleting /\ backend.AttachedImageURL = ""
        /\ last'.fault \notin PersistFaults \cup CrashFaults)
        => /\ ~HasFinalizer(di')
           /\ di'.exists <=> WithoutMarker(di) # <<>>
           /\ di'.exists => /\ di'.Finalizers = WithoutMarker(di)
                            /\ di'.deleting
           /\ last'.result = Result(FALSE, 0)
           /\ last'.err = ""]_vars

C4_Witness ==
    /\ last.path = "finalizerRemoved"
    /\ last.fault = "none"
    /\ last.hadFinalizer
    /\ ~di.exists
    /\ last.result = Result(FALSE, 0)
    /\ last.err = ""

(* C5: a pass over a DataImage that carries the marker and is not marked    *)
(* for deletion, with the gateway ready and nothing failing, makes the     *)
(* persisted status equal to the status the backend reports, field by      *)
(* field, leaves the rest of the DataImage (its finalizers) as it was and  *)
(* returns no requeue and no error.                                        *)
C5_StatusCopied ==
    [][(ReachesFinalizerStep /\ ~di.deleting /\ HasFinalizer(di) /\ NothingFails)
        => /\ di' = [di EXCEPT !.Status = backend]
           /\ last'.result = Result(FALSE, 0)
           /\ last'.err = ""]_vars

C5_Witness ==
    /\ last.path = "statusUpdated"
    /\ last.fault = "none"
    /\ HasFinalizer(di)
    /\ ~di.deleting
    /\ di.Status = backend
    /\ backend.AttachedImageURL # ""
    /\ backend.ErrorMessage = ""

(* C6 as stated: when a pass that copied the backend status returns         *)
(* without error, the persisted status equals the in-memory status, on the *)
(* live path and on the deletion path alike.                               *)
C6_StatusPersistedOnEveryPath ==
    [][(PassReturned /\ last'.fetched /\ last'.err = "" /\ di'.exists)
        => di'.Status = last'.memStatus]_vars

(* C6, amended: when a pass that copied the backend status returns without *)
(* error on the live path, the persisted status equals the in-memory       *)
(* status, which is the reported one; on the deletion path (attachment     *)
(* still present, or finalizer removed) the copy stays in memory and the   *)
(* persisted status is the one loaded.                                     *)
C6_StatusPersistedOnLivePath ==
    [][(PassReturned /\ last'.fetched /\ last'.err = "")
        => /\ last'.memStatus = backend
           /\ ~di.deleting => di'.Status = last'.memStatus
           /\ (di.deleting /\ di'.exists) => di'.Status = di.Status]_vars

C6_Witness ==
    /\ last.path = "statusUpdated"
    /\ last.err = ""
    /\ last.fetched
    /\ di.Status = last.memStatus
    /\ last.memStatus.ErrorMessage # ""

(* C7: if the DataImage is marked for deletion and carries the marker, its  *)
(* Host exists and stays not detached, the gateway is eventually always    *)
(* ready and the backend eventually always reports an empty URL, then,     *)
(* with every queued pass run, the marker is eventually removed.           *)
C7_FinalizerEventuallyRemoved ==
    []((/\ di.exists /\ di.deleting /\ HasFinalizer(di)
        /\ []HostManaged
        /\ <>[](tryInit = "ready")
        /\ <>[](backend.AttachedImageURL = ""))
       => <>(~HasFinalizer(di)))

(* C8: every write of the DataImage's status, by a pass that returns or by *)
(* one that crashes, is made to a DataImage that is not marked for         *)
(* deletion and whose persisted finalizers held the marker when the pass   *)
(* loaded it and still hold it: the write that added the marker came       *)
(* first.  A pass that loads a DataImage without the marker writes no      *)
(* status.                                                                 *)
C8_FinalizerBeforeStatus ==
    [][(PassStep /\ di.exists /\ di'.exists
        /\ (di'.Status # di.Status
            \/ (last'.path = "statusUpdated" /\ last'.fault # "crashBeforeWrite")))
        => /\ HasFinalizer(di)
           /\ HasFinalizer(di')
           /\ ~di.deleting]_vars

C8_Witness ==
    /\ last.path = "statusUpdated"
    /\ last.fault = "crashAfterWrite"
    /\ last.hadFinalizer
    /\ HasFinalizer(di)
    /\ ~di.deleting
    /\ di.Status.AttachedImageURL # ""
    /\ queued

(* C9: when the DataImage exists without a Host and the Host of the same   *)
(* identity is created, the controller's watches enqueue a pass for the    *)
(* DataImage.                                                              *)
C9_HostCreationTriggersPass ==
    [][(di.exists /\ ~bmh.exists /\ bmh'.exists) => queued']_vars

C12_NotReadyStopsThePass ==
    [][(PassStep /\ di.exists /\ HostManaged /\ tryInit # "ready"
        /\ last'.fault \notin LoadFaults)
        => /\ di' = di
           /\ ~last'.fetched
           /\ last'.published = <<>>
           /\ PassReturned
                => /\ last'.result = Result(TRUE, provisionerRetryDelay)
                   /\ last'.err = ""
                   /\ queued']_vars

C12_Witness ==
    /\ last.path = "provisionerNotReady"
    /\ last.fault = "none"
    /\ tryInit = "notready"
    /\ di.exists
    /\ ~di.deleting
    /\ ~HasFinalizer(di)
    /\ last.result = Result(TRUE, provisionerRetryDelay)
    /\ queued

(* C13: when the Host carries the detached annotation, the pass returns    *)
(* Requeue after unmanagedRetryDelay with no error and goes no further,    *)
(* whether or not the DataImage is marked for deletion: no provisioner is  *)
(* created (a failing factory goes unnoticed), and the persisted DataImage *)
(* is as loaded.                                                           *)
C13_DetachedHostStopsThePass ==
    [][(PassStep /\ di.exists /\ bmh.exists /\ hasDetachedAnnotation(bmh)
        /\ last'.fault \notin {"getDataImage", "getHost"})
        => /\ di' = di
           /\ ~last'.fetched
           /\ last'.published = <<>>
           /\ last'.path = "hostDetached"
           /\ PassReturned
                => /\ last'.result = Result(TRUE, unmanagedRetryDelay)
                   /\ last'.err = ""
                   /\ queued']_vars

C13_Witness ==
    /\ last.path = "hostDetached"
    /\ last.fault = "newProvisioner"
    /\ hasDetachedAnnotation(bmh)
    /\ di.deleting
    /\ HasFinalizer(di)
    /\ tryInit = "ready"
    /\ backend.AttachedImageURL = ""
    /\ last.result = Result(TRUE, unmanagedRetryDelay)

(* C14: a pass that finds no DataImage, or no Host, returns no requeue and *)
(* no error and writes nothing; a load that fails for another reason is    *)
(* not taken for "not found": the pass returns Requeue after               *)
(* dataImageRetryDelay, with the error, and writes nothing.                *)
C14_NotFoundAndLoadErrors ==
    [][PassReturned
        => LET f == last'.fault
               notFound == /\ f # "getDataImage"
                           /\ \/ ~di.exists
                              \/ (f # "getHost" /\ ~bmh.exists)
               loadFails == \/ f = "getDataImage"
                            \/ (f = "getHost" /\ di.exists)
           IN /\ notFound => /\ di' = di
                             /\ last'.result = Result(FALSE, 0)
                             /\ last'.err = ""
                             /\ ~queued'
              /\ loadFails => /\ di' = di
                              /\ last'.result = Result(TRUE, dataImageRetryDelay)
                              /\ last'.err # ""
                              /\ queued']_vars

C14_Witness ==
    /\ last.path = "getHostFailed"
    /\ last.fault = "getHost"
    /\ di.exists
    /\ ~bmh.exists
    /\ last.result = Result(TRUE, dataImageRetryDelay)
    /\ queued

\* The events of buffer whose position is not in down, in order.
RECURSIVE Recorded(_, _, _)
Recorded(buffer, i, down) ==
    IF i > Len(buffer) THEN <<>>
    ELSE IF i \in down THEN Recorded(buffer, i + 1, down)
    ELSE <<buffer[i]>> \o Recorded(buffer, i + 1, down)

\* The positions of buffer at which the events of pub are found, in order:
\* pub is buffer with some events left out.
IsOrderedPart(pub, buffer) ==
    \E down \in SUBSET (1..Len(buffer)) : pub = Recorded(buffer, 1, down)

(* C15: events are published only by a pass whose status write has         *)
(* succeeded (the persisted status is the reported one when the pass ends, *)
(* the write did not fail), and in the order in which they were buffered;  *)
(* a pass that wrote no status, or whose status write failed, publishes    *)
(* none of its events.                                                     *)
C15_EventsAfterStatusWrite ==
    [][(PassStep /\ last'.published # <<>>)
        => /\ last'.fault = "none"
           /\ ReachesFinalizerStep
           /\ ~di.deleting
           /\ HasFinalizer(di)
           /\ di'.Status = backend
           /\ last'.err = ""
           /\ IsOrderedPart(last'.published, last'.buffered)]_vars

C15_Witness ==
    /\ last.path = "statusUpdated"
    /\ last.buffered = <<"Ev1", "Ev2">>
    /\ last.published = <<"Ev1", "Ev2">>
    /\ di.Status = backend
    /\ di.Status.AttachedImageURL # ""

(* C16: a failed recording of an event changes nothing else of the pass:   *)
(* the result is still no requeue and no error, the persisted status is    *)
(* the reported one, and every other buffered event is still recorded, in  *)
(* order, those after the failed one included.                             *)
C16_EventFailureIgnored ==
    [][(ReachesFinalizerStep /\ ~di.deleting /\ HasFinalizer(di) /\ NothingFails)
        => /\ last'.published = Recorded(last'.buffered, 1, last'.sinkDown)
           /\ last'.result = Result(FALSE, 0)
           /\ last'.err = ""
           /\ di'.Status = backend
           /\ ~queued']_vars

C16_Witness ==
    /\ last.path = "statusUpdated"
    /\ last.buffered = <<"Ev1", "Ev2">>
    /\ last.sinkDown = {1}
    /\ last.published = <<"Ev2">>
    /\ last.result = Result(FALSE, 0)
    /\ last.err = ""
    /\ di.Status = backend
    /\ backend.ErrorMessage # ""

(* C17: when another actor has changed the persisted DataImage between a   *)
(* pass's load and its persist (the finalizer add, the finalizer removal   *)
(* or the status write), the persist is refused and the pass writes        *)
(* nothing: the DataImage is as the other actor left it; the pass returns  *)
(* an error or a requeue, and the key is queued again.  The refusal itself *)
(* is the store's (resource version check); the returns are lines 160-163, *)
(* 191-193 and 198-200.                                                    *)
C17_ConflictWritesNothing ==
    [][(PassStep /\ last'.fault = "conflict")
        => /\ di' = Interfere(di)
           /\ di' # di
           /\ last'.err # "" \/ last'.result.Requeue
           /\ last'.published = <<>>
           /\ queued']_vars

C17_Witness ==
    /\ last.fault = "conflict"
    /\ last.path = "updateStatusFailed"
    /\ last.err # ""
    /\ di.exists
    /\ StringInList(di.Finalizers, OtherFinalizer)
    /\ HasFinalizer(di)
    /\ di.Status # backend
    /\ queued

(* C18: the finalizers of the DataImage hold the controller's marker at    *)
(* most once in every reachable state, whatever passes have run, repeated  *)
(* and re-triggered ones included; and no step puts the marker on a        *)
(* DataImage that is marked for deletion and does not carry it.            *)
C18_AtMostOneMarker ==
    /\ [](Occurrences(di.Finalizers, DataImageFinalizer) <= 1)
    /\ [][(di.exists /\ di.deleting /\ ~HasFinalizer(di))
           => ~HasFinalizer(di')]_vars

C18_Witness ==
    /\ last.path = "waitDetach"
    /\ last.result.Requeue
    /\ di.exists
    /\ di.deleting
    /\ ~HasFinalizer(di)
    /\ di.Finalizers = <<OtherFinalizer>>

\* The persisted DataImage after one complete step on d: the marker is
\* appended, or filtered out (the DataImage under deletion goes with its
\* last finalizer), or the status is the one the backend reports.
OneStepApplied(d, after) ==
    \/ after = [d EXCEPT !.Finalizers = Append(@, DataImageFinalizer)]
    \/ /\ d.deleting
       /\ after = IF WithoutMarker(d) = <<>> THEN NoDataImage
                  ELSE [d EXCEPT !.Finalizers = WithoutMarker(d)]
    \/ after = [d EXCEPT !.Status = backend]

(* C19: a pass writes the persisted DataImage at most once: when it ends,  *)
(* returned or crashed at any point, the DataImage is exactly as loaded or *)
(* has exactly one complete step applied (the finalizer added, or the      *)
(* finalizer removed, or the status written), never the finalizers and the *)
(* status both changed.  Passes whose write another actor preceded are     *)
(* C17's.                                                                  *)
C19_AtMostOneWrite ==
    [][(PassStep /\ last'.fault # "conflict")
        => /\ di' = di \/ OneStepApplied(di, di')
           /\ di'.exists => (di'.Finalizers = di.Finalizers
                             \/ di'.Status = di.Status)
           /\ last'.fault = "crashBeforeWrite" => di' = di]_vars

C19_Witness ==
    /\ last.fault = "crashAfterWrite"
    /\ last.path = "finalizerAdded"
    /\ HasFinalizer(di)
    /\ ~di.deleting
    /\ di.Status = EmptyStatus
    /\ backend.AttachedImageURL # ""

(* C20: a pass over a DataImage that is marked for deletion and carries    *)
(* the finalizer, with the Host absent, writes nothing (the finalizer      *)
(* stays) and, its loads answered, returns no requeue and no error, so the *)
(* key is not queued again; and whatever step takes the marker off a       *)
(* DataImage is a pass that found the Host present and not detached, the   *)
(* gateway ready and the reported URL empty.                               *)
C20_AbsentHostKeepsFinalizer ==
    [][/\ (PassStep /\ di.exists /\ di.deleting /\ HasFinalizer(di)
                    /\ ~bmh.exists)
          => /\ di' = di
             /\ (last'.fault \notin {"getDataImage", "getHost"} \cup CrashFaults)
                => /\ last'.path = "hostNotFound"
                   /\ last'.result = Result(FALSE, 0)
                   /\ last'.err = ""
                   /\ ~queued'
       /\ (HasFinalizer(di) /\ ~HasFinalizer(di'))
          => /\ PassStep
             /\ di.deleting
             /\ HostManaged
             /\ tryInit = "ready"
             /\ backend.AttachedImageURL = ""]_vars

C20_Witness ==
    /\ last.path = "hostNotFound"
    /\ last.result = Result(FALSE, 0)
    /\ last.err = ""
    /\ di.exists
    /\ di.deleting
    /\ HasFinalizer(di)
    /\ ~bmh.exists
    /\ ~queued

====
